---- MODULE Spec2Model ----
(***************************************************************************)
(* Model of the two chat route handlers of support.zerodha:                *)
(*   src/src/app/api/ex4/route.ts  (module-level index build, response     *)
(*                                  cache, fallback context)               *)
(*   src/unnamed/part_000          (index rebuilt inside every request)    *)
(* One Node process, cooperative scheduling: every action below is the     *)
(* synchronous run of code between two awaits.                             *)
(***************************************************************************)
EXTENDS Naturals, Sequences, FiniteSets, TLC

VARIABLES
  buildPc,        \* position of initializeVectorStore() (ex4 module level)
  vectorStore,    \* let vectorStore: MemoryVectorStore | null
  isInitialized,  \* let isInitialized
  rawDocs,        \* local of initializeVectorStore: result of loader.load()
  docs,           \* local of initializeVectorStore: result of splitDocuments
  cache,          \* own properties of the ex4 `cache` object
  loads,          \* number of corpus loads started by the ex4 build
  embedBatches,   \* number of MemoryVectorStore.fromDocuments calls of the ex4 build
  unhandled,      \* number of promise rejections nobody handles
  req             \* per request: route, position and locals of POST

vars == <<buildPc, vectorStore, isInitialized, rawDocs, docs, cache,
          loads, embedBatches, unhandled, req>>

gateVars == <<buildPc, vectorStore, isInitialized, rawDocs, docs,
              loads, embedBatches>>

-----------------------------------------------------------------------------
(* Bounds *)

NumReq == 2
MaxChunks == 2
MaxMsgs == 3

(* Program constants *)

DefaultStatus == 500
RetrieverK == 4
SearchK == 3

Requests == 1..NumReq

-----------------------------------------------------------------------------
(* Values *)

\* A MemoryVectorStore: the documents in insertion order, and the order in
\* which the stored vectors rank by similarity (fixed by the embeddings the
\* provider returned at build time).
Null == [isNull |-> TRUE, docs |-> <<>>, ranking |-> <<>>]
StoreOf(ds, ranking) == [isNull |-> FALSE, docs |-> ds, ranking |-> ranking]

Undefined == [t |-> "undefined", v |-> ""]
Text(s) == [t |-> "string", v |-> s]
Inherited(s) == [t |-> "object", v |-> s]

FallbackNotice == "I'm still loading the necessary information. I'll do my best to answer based on general knowledge, but I may not have access to specific details at the moment."

\* Contents of the corpus file as the pieces the splitter cuts it into (the
\* splitter is the langchain library's); the file holds one piece or two.
Corpora == { <<"c1">>, <<"c1", "c2">> }

\* textSplitter.splitDocuments: one Document per piece of the file.
SplitDocuments(raw) == [i \in 1..Len(raw) |-> [pageContent |-> raw[i]]]

\* Tokens the generation stream yields, by position.
Answer == <<"t1", "t2", "t3", "t4">>

\* The turns a request may carry before its question: none, or one
\* exchange, oldest first.
Histories == { <<>>,
               << [role |-> "user", content |-> "hello"],
                  [role |-> "assistant", content |-> "hi"] >> }
Questions == {"q1", "constructor"}

MessageArrays ==
  { <<>> } \cup
  { Append(h, [role |-> "user", content |-> q]) :
      h \in Histories, q \in Questions }

\* The JSON bodies a caller may send.  `messages` is absent, a string,
\* or an array of messages; "badjson" is a body req.json() cannot parse.
Bodies ==
  { [kind |-> "badjson", mt |-> "undefined", messages |-> <<>>],
    [kind |-> "json", mt |-> "undefined", messages |-> <<>>],
    [kind |-> "json", mt |-> "string", messages |-> <<>>] }
  \cup { [kind |-> "json", mt |-> "array", messages |-> m] : m \in MessageArrays }

\* Errors: message and optional status (0 stands for "no status property").
NoStatus == 0
SyntaxErr == [message |-> "Unexpected token in JSON", status |-> NoStatus]
InvalidErr == [message |-> "Invalid or missing messages array", status |-> NoStatus]
TypeErr == [message |-> "Cannot read properties of undefined", status |-> NoStatus]
NoError == [message |-> "", status |-> NoStatus]
ProviderErrors == { [message |-> "rate limited", status |-> 429] }

NoResponse == [kind |-> "none", body |-> "", status |-> 0]

-----------------------------------------------------------------------------
(* Pure helpers *)

RECURSIVE Join(_, _)
Join(s, sep) ==
  IF Len(s) = 0 THEN ""
  ELSE IF Len(s) = 1 THEN s[1]
  ELSE s[1] \o sep \o Join(Tail(s), sep)

RECURSIVE Concat(_)
Concat(s) == IF Len(s) = 0 THEN "" ELSE s[1] \o Concat(Tail(s))

formatMessage(message) == message.role \o ": " \o message.content

\* messages.map(formatMessage)
FormatAll(messages) == [i \in 1..Len(messages) |-> formatMessage(messages[i])]

\* Variant: slice(1), which drops the oldest message and keeps the last
SliceButLast_fromOne(messages) ==
  IF Len(messages) = 0 THEN <<>> ELSE SubSeq(messages, 2, Len(messages))

\* messages.slice(0, -1)
SliceButLast(messages) ==
  IF Len(messages) = 0 THEN <<>> ELSE SubSeq(messages, 1, Len(messages) - 1)

\* The similarity orders a store of these documents can have
Rankings(ds) ==
  { p \in [1..Len(ds) -> 1..Len(ds)] : \A i, j \in 1..Len(ds) : p[i] = p[j] => i = j }

\* The k most similar stored chunks, most similar first
TopK(vs, k) ==
  [i \in 1..(IF Len(vs.docs) < k THEN Len(vs.docs) ELSE k) |-> vs.docs[vs.ranking[i]]]

\* vectorStore.asRetriever().getRelevantDocuments(q)
RelevantDocs(vs) == TopK(vs, RetrieverK)

\* vectorStore.similaritySearch(q, 3)
SimilaritySearch(vs) == TopK(vs, SearchK)

\* relevantDocs.map(doc => doc.pageContent)
PageContents(ds) == [i \in 1..Len(ds) |-> ds[i].pageContent]

-----------------------------------------------------------------------------
(* The ex4 response cache: a plain object literal, so a lookup falls back *)
(* to Object.prototype.                                                    *)

ObjectPrototypeKeys == {"constructor", "toString", "valueOf", "hasOwnProperty"}

EmptyCache == [k \in {} |-> ""]

\* cache[key]
CacheGet(c, key) ==
  IF key \in DOMAIN c THEN Text(c[key])
  ELSE IF key \in ObjectPrototypeKeys THEN Inherited(key)
  ELSE Undefined

\* cache[key] = text
CachePut(c, key, text) ==
  [k \in (DOMAIN c) \cup {key} |-> IF k = key THEN text ELSE c[k]]

\* JavaScript truthiness of a looked-up value
Truthy(v) == v.t = "object" \/ (v.t = "string" /\ v.v # "")

\* The body new Response(v) carries: v converted to a string
ToStr(v) ==
  IF v.t = "string" THEN v.v
  ELSE IF v.t = "object"
    THEN "function " \o (IF v.v = "constructor" THEN "Object" ELSE v.v)
           \o "() { [native code] }"
  ELSE "undefined"

HitResponse(v) == [kind |-> "text", body |-> ToStr(v), status |-> 200]

\* Variant: the status of the error is dropped
ErrorResponse_always500(e) ==
  [kind |-> "json", body |-> e.message, status |-> DefaultStatus]

\* Response.json({ error: e.message }, { status: e.status ?? 500 })
ErrorResponse(e) ==
  [kind |-> "json", body |-> e.message,
   status |-> IF e.status = NoStatus THEN DefaultStatus ELSE e.status]

\* Variant: the stream goes through cacheStream on its way to the caller
Pipeline_withCache == <<"cacheStream", "createStreamDataTransformer">>

\* The transforms the generation stream is piped through before it is
\* handed to StreamingTextResponse.  cacheStream is constructed but is not
\* one of them.
Pipeline == <<"createStreamDataTransformer">>

CacheStreamPiped == \E i \in 1..Len(Pipeline) : Pipeline[i] = "cacheStream"

-----------------------------------------------------------------------------
(* Requests *)

NoPrompt == [chat_history |-> "", question |-> "", context |-> ""]

IdleRequest ==
  [route |-> "none", pc |-> "idle", body |-> [kind |-> "badjson", mt |-> "undefined", messages |-> <<>>],
   relevantText |-> "", prompt |-> NoPrompt, response |-> NoResponse,
   thrown |-> NoError, forwarded |-> <<>>, fullResponse |-> "",
   embedCalls |-> 0, genCalls |-> 0, gateAt |-> "",
   localDocs |-> <<>>, localStore |-> Null]

LastMessage(rec) == rec.body.messages[Len(rec.body.messages)]

\* const cacheKey = currentMessageContent
cacheKey(rec) == LastMessage(rec).content

\* The record of an exchange that is over: the earlier turns and the
\* formatted history were locals of the handler and are dropped.
Release(rec) ==
  IF rec.body.kind = "json" /\ rec.body.mt = "array" /\ Len(rec.body.messages) > 1
    THEN [rec EXCEPT !.body.messages = <<LastMessage(rec)>>,
                     !.prompt.chat_history = ""]
    ELSE rec

\* catch (e) { return Response.json(...) }
Caught(rec, e) ==
  Release([rec EXCEPT !.pc = "done", !.thrown = e, !.response = ErrorResponse(e)])

\* What a request finds the gate to be when it runs the index check
GateState ==
  IF buildPc \in {"loading", "splitting", "embedding"} THEN "building" ELSE buildPc

\* Variant: a settled build is taken for a finished one
GateOpen_settled == buildPc \in {"ready", "rejected"}

\* if (isInitialized && vectorStore)
GateOpen == isInitialized /\ ~vectorStore.isNull

\* Variant: the else branch is missing, relevantText keeps its initial ''
ElseContext_empty == ""

\* the else branch of the index check
ElseContext == FallbackNotice

\* Variant: the generation call is issued again after the first one
StartStream_retry(rec) ==
  [rec EXCEPT !.pc = "starting",
              !.genCalls = @ + 2,
              !.prompt = [chat_history |->
                            Join(FormatAll(SliceButLast(rec.body.messages)), "\n"),
                          question |-> LastMessage(rec).content,
                          context |-> rec.relevantText]]

\* Variant: a request joins the generation another request has already
\* started for the same question
StartStream_shared(rec) ==
  [rec EXCEPT !.pc = "starting",
              !.genCalls = IF \E o \in Requests :
                                 /\ req[o].prompt.question = LastMessage(rec).content
                                 /\ req[o].genCalls > 0
                             THEN @ ELSE @ + 1,
              !.prompt = [chat_history |->
                            Join(FormatAll(SliceButLast(rec.body.messages)), "\n"),
                          question |-> LastMessage(rec).content,
                          context |-> rec.relevantText]]

\* chain.stream({ chat_history, question, context }) is called
StartStream(rec) ==
  [rec EXCEPT !.pc = "starting",
              !.genCalls = @ + 1,
              !.prompt = [chat_history |->
                            Join(FormatAll(SliceButLast(rec.body.messages)), "\n"),
                          question |-> LastMessage(rec).content,
                          context |-> rec.relevantText]]

-----------------------------------------------------------------------------
(* ex4: module evaluation and initializeVectorStore *)

Init ==
  /\ buildPc = "unloaded"
  /\ vectorStore = Null
  /\ isInitialized = FALSE
  /\ rawDocs = <<>>
  /\ docs = <<>>
  /\ cache = EmptyCache
  /\ loads = 0
  /\ embedBatches = 0
  /\ unhandled = 0
  /\ req = [r \in Requests |-> IdleRequest]

\* Module evaluation: the two lets, then initializeVectorStore() runs up to
\* its first await (loader.load()).
ModuleLoad ==
  /\ buildPc = "unloaded"
  /\ vectorStore' = Null
  /\ isInitialized' = FALSE
  /\ IF vectorStore.isNull
       THEN /\ loads' = loads + 1
            /\ buildPc' = "loading"
       ELSE /\ loads' = loads
            /\ buildPc' = "ready"
  /\ UNCHANGED <<rawDocs, docs, cache, embedBatches, unhandled, req>>

\* loader.load() resolves; splitDocuments is awaited
BuildLoaded ==
  /\ buildPc = "loading"
  /\ \E corpus \in Corpora : rawDocs' = corpus
  /\ buildPc' = "splitting"
  /\ UNCHANGED <<vectorStore, isInitialized, docs, cache, loads, embedBatches,
                 unhandled, req>>

\* loader.load() rejects (corpus file missing): initializeVectorStore has
\* no try/catch and initializationPromise has no handler attached.
BuildLoadFailed ==
  /\ buildPc = "loading"
  /\ buildPc' = "rejected"
  /\ unhandled' = unhandled + 1
  /\ UNCHANGED <<vectorStore, isInitialized, rawDocs, docs, cache, loads,
                 embedBatches, req>>

\* Variant: the flag is raised before the embedding is awaited
BuildSplit_flagEarly ==
  /\ buildPc = "splitting"
  /\ docs' = SplitDocuments(rawDocs)
  /\ embedBatches' = embedBatches + 1
  /\ buildPc' = "embedding"
  /\ isInitialized' = TRUE
  /\ UNCHANGED <<vectorStore, rawDocs, cache, loads, unhandled, req>>

\* splitDocuments resolves; MemoryVectorStore.fromDocuments is awaited
BuildSplit ==
  /\ buildPc = "splitting"
  /\ docs' = SplitDocuments(rawDocs)
  /\ embedBatches' = embedBatches + 1
  /\ buildPc' = "embedding"
  /\ UNCHANGED <<vectorStore, isInitialized, rawDocs, cache, loads,
                 unhandled, req>>

\* fromDocuments resolves: vectorStore and isInitialized are assigned in
\* the same synchronous run
BuildEmbedded ==
  /\ buildPc = "embedding"
  /\ \E ranking \in Rankings(docs) : vectorStore' = StoreOf(docs, ranking)
  /\ isInitialized' = TRUE
  /\ buildPc' = "ready"
  /\ rawDocs' = <<>> /\ docs' = <<>>
  /\ UNCHANGED <<cache, loads, embedBatches, unhandled, req>>

\* fromDocuments rejects (embedding provider failure)
BuildEmbedFailed ==
  /\ buildPc = "embedding"
  /\ buildPc' = "rejected"
  /\ unhandled' = unhandled + 1
  /\ rawDocs' = <<>> /\ docs' = <<>>
  /\ UNCHANGED <<vectorStore, isInitialized, cache, loads, embedBatches, req>>

-----------------------------------------------------------------------------
(* ex4: POST *)

\* A request reaches a route handler, which runs up to `await req.json()`.
\* Handlers run only once their module has been evaluated; request ids are
\* handed out in order of arrival.
Arrive(r, route, body) ==
  /\ route = "ex4" => buildPc # "unloaded"
  /\ req[r].route = "none"
  /\ \A earlier \in Requests : earlier < r => req[earlier].route # "none"
  /\ req' = [req EXCEPT ![r] = [@ EXCEPT !.route = route, !.pc = "json", !.body = body]]
  /\ UNCHANGED <<gateVars, cache, unhandled>>

\* Variant: the handler builds the index itself when it finds none
PostParsedIndex_lazyBuild(r) ==
  IF isInitialized \/ buildPc = "rejected" \/ loads > 1
    THEN UNCHANGED gateVars
    ELSE /\ loads' = loads + 1
         /\ buildPc' = "loading"
         /\ UNCHANGED <<vectorStore, isInitialized, rawDocs, docs, embedBatches>>

\* Variant: the retrieval step also indexes the question
PostRetrievedIndex_addsQuery(r) ==
  /\ vectorStore' = StoreOf(Append(vectorStore.docs,
                                   [pageContent |-> LastMessage(req[r]).content]),
                            Append(vectorStore.ranking, Len(vectorStore.docs) + 1))
  /\ UNCHANGED <<buildPc, isInitialized, rawDocs, docs, loads, embedBatches>>

\* POST never calls initializeVectorStore and never assigns the module's
\* index variables.
PostParsedIndex(r) == UNCHANGED gateVars
PostRetrievedIndex(r) == UNCHANGED gateVars

\* From the resumption after req.json() to the next await or return:
\* validation, history formatting, cache lookup, index check.
AfterParse(rec) ==
  LET b == rec.body IN
  IF b.kind = "badjson" THEN Caught(rec, SyntaxErr)
  ELSE IF b.mt # "array" THEN Caught(rec, InvalidErr)
  ELSE IF Len(b.messages) = 0 THEN Caught(rec, TypeErr)
  ELSE LET hit == CacheGet(cache, cacheKey(rec)) IN
       IF Truthy(hit)
         THEN Release([rec EXCEPT !.pc = "done", !.response = HitResponse(hit)])
       ELSE IF GateOpen
         THEN IF vectorStore.isNull
                THEN Caught([rec EXCEPT !.gateAt = GateState], TypeErr)
                ELSE [rec EXCEPT !.pc = "retrieving", !.embedCalls = @ + 1,
                                 !.gateAt = GateState]
       ELSE StartStream([rec EXCEPT !.relevantText = ElseContext,
                                    !.gateAt = GateState])

PostParsed(r) ==
  /\ req[r].route = "ex4" /\ req[r].pc = "json"
  /\ req' = [req EXCEPT ![r] = AfterParse(req[r])]
  /\ PostParsedIndex(r)
  /\ UNCHANGED <<cache, unhandled>>

\* getRelevantDocuments resolves; relevantText is joined and chain.stream
\* is called
PostRetrieved(r) ==
  /\ req[r].route = "ex4" /\ req[r].pc = "retrieving"
  /\ LET relevantDocs == RelevantDocs(vectorStore) IN
       req' = [req EXCEPT ![r] =
                 StartStream([@ EXCEPT !.relevantText =
                                Join(PageContents(relevantDocs), "\n")])]
  /\ PostRetrievedIndex(r)
  /\ UNCHANGED <<cache, unhandled>>

\* Variant: the error message is stored as the answer to the question
FailedRequestCache_storesError(r, e) ==
  CachePut(cache, cacheKey(req[r]), e.message)

\* The catch block writes nothing to the cache
FailedRequestCache(r, e) == cache

\* getRelevantDocuments rejects (query embedding failed)
PostRetrieveFailed(r) ==
  /\ req[r].route = "ex4" /\ req[r].pc = "retrieving"
  /\ \E e \in ProviderErrors :
       /\ req' = [req EXCEPT ![r] = Caught(@, e)]
       /\ cache' = FailedRequestCache(r, e)
  /\ UNCHANGED <<gateVars, unhandled>>

\* chain.stream resolves: cacheStream is constructed and the handler
\* returns the streaming response
PostStreamReady(r) ==
  /\ req[r].route = "ex4" /\ req[r].pc = "starting"
  /\ req' = [req EXCEPT ![r] =
               [@ EXCEPT !.pc = "streaming",
                         !.response = [kind |-> "stream", body |-> "", status |-> 200]]]
  /\ UNCHANGED <<gateVars, cache, unhandled>>

\* chain.stream rejects
PostStreamFailed(r) ==
  /\ req[r].route = "ex4" /\ req[r].pc = "starting"
  /\ \E e \in ProviderErrors :
       /\ req' = [req EXCEPT ![r] = Caught(@, e)]
       /\ cache' = FailedRequestCache(r, e)
  /\ UNCHANGED <<gateVars, unhandled>>

\* The generation stream yields its next chunk, which goes through the
\* pipeline to the caller; cacheStream.transform sees it only if piped.
StreamChunk(r) ==
  /\ req[r].route = "ex4" /\ req[r].pc = "streaming"
  /\ Len(req[r].forwarded) < MaxChunks
  /\ LET chunk == Answer[Len(req[r].forwarded) + 1] IN
     req' = [req EXCEPT ![r] =
               [@ EXCEPT !.forwarded = Append(@, chunk),
                         !.fullResponse = IF CacheStreamPiped THEN @ \o chunk ELSE @]]
  /\ UNCHANGED <<gateVars, cache, unhandled>>

\* The generation stream completes; cacheStream.flush runs only if piped.
StreamCloseCache(r) ==
  IF CacheStreamPiped
    THEN CachePut(cache, cacheKey(req[r]), req[r].fullResponse)
    ELSE cache

StreamClose(r) ==
  /\ req[r].route = "ex4" /\ req[r].pc = "streaming"
  /\ req' = [req EXCEPT ![r] = Release([@ EXCEPT !.pc = "closed"])]
  /\ cache' = StreamCloseCache(r)
  /\ UNCHANGED <<gateVars, unhandled>>

\* Variant: the text accumulated so far is stored when the stream fails
StreamErrorCache_flush(r) ==
  CachePut(cache, cacheKey(req[r]), Concat(req[r].forwarded))

\* The generation stream fails mid-flight: no flush runs on an errored
\* stream.
StreamErrorCache(r) == cache

StreamError(r) ==
  /\ req[r].route = "ex4" /\ req[r].pc = "streaming"
  /\ req' = [req EXCEPT ![r] = Release([@ EXCEPT !.pc = "errored"])]
  /\ cache' = StreamErrorCache(r)
  /\ UNCHANGED <<gateVars, unhandled>>

-----------------------------------------------------------------------------
(* part_000: POST.  The module keeps no state; the index is a local of    *)
(* each call.                                                              *)

\* From the resumption after req.json() to `await loader.load()`:
\* messages.slice(0, -1).map(...) and messages[messages.length - 1].content
\* run with no validation before them.
P0AfterParse(rec) ==
  LET b == rec.body IN
  IF b.kind = "badjson" THEN Caught(rec, SyntaxErr)
  ELSE IF b.mt # "array" THEN Caught(rec, TypeErr)
  ELSE IF Len(b.messages) = 0 THEN Caught(rec, TypeErr)
  ELSE [rec EXCEPT !.pc = "loading"]

P0Parsed(r) ==
  /\ req[r].route = "p0" /\ req[r].pc = "json"
  /\ req' = [req EXCEPT ![r] = P0AfterParse(@)]
  /\ UNCHANGED <<gateVars, cache, unhandled>>

\* loader.load() resolves
P0Loaded(r) ==
  /\ req[r].route = "p0" /\ req[r].pc = "loading"
  /\ \E corpus \in Corpora :
       req' = [req EXCEPT ![r] = [@ EXCEPT !.pc = "splitting", !.localDocs = corpus]]
  /\ UNCHANGED <<gateVars, cache, unhandled>>

\* loader.load() rejects: inside the try block
P0LoadFailed(r) ==
  /\ req[r].route = "p0" /\ req[r].pc = "loading"
  /\ req' = [req EXCEPT ![r] =
               Caught(@, [message |-> "ENOENT: no such file or directory",
                          status |-> NoStatus])]
  /\ UNCHANGED <<gateVars, cache, unhandled>>

\* splitDocuments resolves; fromDocuments is awaited
P0Split(r) ==
  /\ req[r].route = "p0" /\ req[r].pc = "splitting"
  /\ req' = [req EXCEPT ![r] = [@ EXCEPT !.pc = "embedding"]]
  /\ UNCHANGED <<gateVars, cache, unhandled>>

\* fromDocuments resolves; similaritySearch is awaited
P0Embedded(r) ==
  /\ req[r].route = "p0" /\ req[r].pc = "embedding"
  /\ \E ranking \in Rankings(req[r].localDocs) :
       req' = [req EXCEPT ![r] =
                 [@ EXCEPT !.pc = "retrieving",
                           !.localStore = StoreOf(SplitDocuments(req[r].localDocs), ranking),
                           !.embedCalls = @ + 1]]
  /\ UNCHANGED <<gateVars, cache, unhandled>>

\* fromDocuments or similaritySearch rejects
P0EmbedFailed(r) ==
  /\ req[r].route = "p0" /\ req[r].pc \in {"embedding", "retrieving"}
  /\ \E e \in ProviderErrors : req' = [req EXCEPT ![r] = Caught(@, e)]
  /\ UNCHANGED <<gateVars, cache, unhandled>>

\* similaritySearch resolves; chain.stream is called
P0Retrieved(r) ==
  /\ req[r].route = "p0" /\ req[r].pc = "retrieving"
  /\ LET relevantDocs == SimilaritySearch(req[r].localStore) IN
       req' = [req EXCEPT ![r] =
                 StartStream([@ EXCEPT !.relevantText =
                                Join(PageContents(relevantDocs), "\n")])]
  /\ UNCHANGED <<gateVars, cache, unhandled>>

\* chain.stream resolves and the streaming response is returned, or it
\* rejects
P0StreamReady(r) ==
  /\ req[r].route = "p0" /\ req[r].pc = "starting"
  /\ req' = [req EXCEPT ![r] =
               [@ EXCEPT !.pc = "streaming",
                         !.response = [kind |-> "stream", body |-> "", status |-> 200]]]
  /\ UNCHANGED <<gateVars, cache, unhandled>>

P0StreamFailed(r) ==
  /\ req[r].route = "p0" /\ req[r].pc = "starting"
  /\ \E e \in ProviderErrors : req' = [req EXCEPT ![r] = Caught(@, e)]
  /\ UNCHANGED <<gateVars, cache, unhandled>>

\* The stream yields a chunk, completes, or fails
P0StreamChunk(r) ==
  /\ req[r].route = "p0" /\ req[r].pc = "streaming"
  /\ Len(req[r].forwarded) < MaxChunks
  /\ req' = [req EXCEPT ![r] =
               [@ EXCEPT !.forwarded = Append(@, Answer[Len(@) + 1])]]
  /\ UNCHANGED <<gateVars, cache, unhandled>>

P0StreamEnd(r) ==
  /\ req[r].route = "p0" /\ req[r].pc = "streaming"
  /\ \E outcome \in {"closed", "errored"} :
       req' = [req EXCEPT ![r] = Release([@ EXCEPT !.pc = outcome])]
  /\ UNCHANGED <<gateVars, cache, unhandled>>

-----------------------------------------------------------------------------

Build ==
  \/ ModuleLoad
  \/ BuildLoaded
  \/ BuildLoadFailed
  \/ BuildSplit
  \/ BuildEmbedded
  \/ BuildEmbedFailed

Ex4 ==
  \/ \E r \in Requests, body \in Bodies : Arrive(r, "ex4", body)
  \/ \E r \in Requests : PostParsed(r)
  \/ \E r \in Requests : PostRetrieved(r)
  \/ \E r \in Requests : PostRetrieveFailed(r)
  \/ \E r \in Requests : PostStreamReady(r)
  \/ \E r \in Requests : PostStreamFailed(r)
  \/ \E r \in Requests : StreamChunk(r)
  \/ \E r \in Requests : StreamClose(r)
  \/ \E r \in Requests : StreamError(r)

Part000 ==
  \/ \E r \in Requests, body \in Bodies : Arrive(r, "p0", body)
  \/ \E r \in Requests : P0Parsed(r)
  \/ \E r \in Requests : P0Loaded(r)
  \/ \E r \in Requests : P0LoadFailed(r)
  \/ \E r \in Requests : P0Split(r)
  \/ \E r \in Requests : P0Embedded(r)
  \/ \E r \in Requests : P0EmbedFailed(r)
  \/ \E r \in Requests : P0Retrieved(r)
  \/ \E r \in Requests : P0StreamReady(r)
  \/ \E r \in Requests : P0StreamFailed(r)
  \/ \E r \in Requests : P0StreamChunk(r)
  \/ \E r \in Requests : P0StreamEnd(r)

\* The ex4 route
Next == Build \/ Ex4

Spec == Init /\ [][Next]_vars

\* The part_000 route
SpecPart000 == Init /\ [][Part000]_vars

\* Both routes served by one process
NextBoth == Build \/ Ex4 \/ Part000

SpecBoth == Init /\ [][NextBoth]_vars

\* Prompt construction on its own: one request, on either route, carrying
\* any array of one to MaxMsgs messages, taken from the resumption after
\* req.json() to the generation call.
PromptRoles == {"user", "assistant"}
PromptContents == {"a", "b"}
PromptMessage == [role : PromptRoles, content : PromptContents]

PromptArrays == UNION { [1..n -> PromptMessage] : n \in 1..MaxMsgs }

InitPrompt ==
  /\ buildPc = "loading"
  /\ vectorStore = Null
  /\ isInitialized = FALSE
  /\ rawDocs = <<>>
  /\ docs = <<>>
  /\ cache = EmptyCache
  /\ loads = 1
  /\ embedBatches = 0
  /\ unhandled = 0
  /\ \E route \in {"ex4", "p0"}, m \in PromptArrays :
       req = [r \in Requests |->
                IF r = 1
                  THEN [IdleRequest EXCEPT
                          !.route = route, !.pc = "json",
                          !.body = [kind |-> "json", mt |-> "array", messages |-> m]]
                  ELSE IdleRequest]

NextPrompt ==
  \/ \E r \in Requests : PostParsed(r)
  \/ \E r \in Requests : P0Parsed(r)
  \/ \E r \in Requests : P0Loaded(r)
  \/ \E r \in Requests : P0Split(r)
  \/ \E r \in Requests : P0Embedded(r)
  \/ \E r \in Requests : P0Retrieved(r)

SpecPrompt == InitPrompt /\ [][NextPrompt]_vars

TypeOK ==
  /\ buildPc \in {"unloaded", "loading", "splitting", "embedding", "ready", "rejected"}
  /\ isInitialized \in BOOLEAN

-----------------------------------------------------------------------------
(* Properties *)

Ex4Requests == { r \in Requests : req[r].route = "ex4" }
P0Requests == { r \in Requests : req[r].route = "p0" }

\* The body parsed and `messages` is a non-empty array
ValidBody(rec) ==
  rec.body.kind = "json" /\ rec.body.mt = "array" /\ Len(rec.body.messages) > 0

\* The body parsed but `messages` is absent, not an array, or empty
MalformedMessages(rec) ==
  rec.body.kind = "json" /\ (rec.body.mt # "array" \/ Len(rec.body.messages) = 0)

\* The context text retrieval from store vs gives
ContextOf(vs) == Join(PageContents(RelevantDocs(vs)), "\n")

\* Request r resumes after req.json() in this step
Parses(r) == req[r].pc = "json" /\ req'[r].pc # "json"

\* C1: once a request's stream has completed, the cache holds an entry for
\* the request's question, and the entry is the concatenation of the chunks
\* forwarded by a completed request for that question.
C1_CompletedStreamIsCached ==
  \A r \in Ex4Requests :
    req[r].pc = "closed" =>
      /\ cacheKey(req[r]) \in DOMAIN cache
      /\ \E w \in Ex4Requests :
           /\ req[w].pc = "closed"
           /\ cacheKey(req[w]) = cacheKey(req[r])
           /\ cache[cacheKey(req[r])] = Concat(req[w].forwarded)

\* C2: a request for a question whose answer an earlier request has
\* finished generating is served the cached text, with no embedding/search
\* and no generation call.
C2_RepeatServedFromCache ==
  [][ \A r \in Ex4Requests :
        ( /\ Parses(r)
          /\ ValidBody(req[r])
          /\ \E w \in Ex4Requests :
               req[w].pc = "closed" /\ cacheKey(req[w]) = cacheKey(req[r]) )
        => /\ req'[r].response.kind = "text"
           /\ \E w \in Ex4Requests :
                /\ req[w].pc = "closed"
                /\ cacheKey(req[w]) = cacheKey(req[r])
                /\ req'[r].response.body = Concat(req[w].forwarded)
           /\ req'[r].embedCalls = 0
           /\ req'[r].genCalls = 0 ]_vars

\* C3: whatever requests arrive and however they interleave with the build,
\* the build body runs once: never more than one corpus load or one batch of
\* corpus embeddings, exactly one load once the module is evaluated and
\* exactly one batch once the load has succeeded.
C3_SingleBuild ==
  /\ loads <= 1
  /\ embedBatches <= 1
  /\ buildPc # "unloaded" => loads = 1
  /\ buildPc \in {"embedding", "ready"} => embedBatches = 1
  /\ buildPc \in {"unloaded", "loading", "splitting"} => embedBatches = 0

C3_Witness ==
  /\ buildPc = "ready" /\ loads = 1 /\ embedBatches = 1
  /\ \E a, b \in Ex4Requests :
       a # b /\ req[a].gateAt = "building" /\ req[b].gateAt \in {"building", "ready"}

\* C4 as claimed: a request that ran the index check while the build was in
\* flight has waited for the build, so by the time it calls the generation
\* provider the index is Ready and its context is made of retrieved chunks.
C4_AwaitsBuild ==
  \A r \in Ex4Requests :
    (req[r].gateAt = "building" /\ req[r].genCalls > 0) =>
      /\ isInitialized
      /\ req[r].prompt.context = ContextOf(vectorStore)

\* C4 amended: a request that runs the index check while the build is in
\* flight does not wait: it calls the generation provider once, with the
\* fallback notice as context and no retrieval; a request that runs the
\* check once the index is Ready retrieves from that index.
C4_NoAwaitFallback ==
  \A r \in Ex4Requests :
    /\ req[r].gateAt = "building" =>
         /\ req[r].genCalls = 1
         /\ req[r].embedCalls = 0
         /\ req[r].prompt.context = FallbackNotice
    /\ req[r].gateAt = "ready" =>
         /\ isInitialized
         /\ req[r].embedCalls = 1
         /\ req[r].genCalls = 1 => req[r].prompt.context = ContextOf(vectorStore)

C4_Witness ==
  /\ buildPc = "ready"
  /\ \E a, b \in Ex4Requests :
       /\ req[a].gateAt = "building" /\ req[a].pc = "closed"
       /\ req[b].gateAt = "ready" /\ req[b].genCalls = 1

\* C5: a failed build is handled: no rejection is left without a handler.
C5_BuildFailureHandled == buildPc = "rejected" => unhandled = 0

\* C6: once the build has failed the gate stays failed: no step starts
\* another load or embedding batch or makes the index available, and every
\* request that misses the cache from then on goes straight to generation
\* with the fallback notice and no retrieval.
C6_FailedStaysFailed ==
  [][ buildPc = "rejected" =>
        /\ buildPc' = "rejected"
        /\ loads' = loads /\ embedBatches' = embedBatches
        /\ ~isInitialized' /\ vectorStore' = Null
        /\ \A r \in Ex4Requests :
             ( /\ Parses(r)
               /\ ValidBody(req[r])
               /\ ~Truthy(CacheGet(cache, cacheKey(req[r]))) )
             => /\ req'[r].pc = "starting"
                /\ req'[r].prompt.context = FallbackNotice
                /\ req'[r].embedCalls = 0 ]_vars

C6_Witness ==
  /\ buildPc = "rejected"
  /\ \E a, b \in Ex4Requests :
       a # b /\ req[a].gateAt = "rejected" /\ req[a].pc = "closed"
             /\ req[b].gateAt = "rejected"

\* C7: once isInitialized is true it stays true and vectorStore keeps its
\* value in every later step.
C7_ReadyIndexFrozen ==
  [][ isInitialized =>
        /\ isInitialized'
        /\ vectorStore' = vectorStore
        /\ ~vectorStore.isNull ]_vars

C7_Witness ==
  /\ isInitialized
  /\ \E a, b \in Ex4Requests :
       a # b /\ req[a].gateAt = "ready" /\ req[a].pc = "closed"
             /\ req[b].gateAt = "ready" /\ req[b].pc = "starting"

\* C8: a request whose body parsed but whose `messages` is absent, not an
\* array or empty is answered with a JSON error of a 400-class status, by
\* either handler.
C8_MalformedIs400 ==
  \A r \in Ex4Requests \cup P0Requests :
    (MalformedMessages(req[r]) /\ req[r].pc = "done") =>
      /\ req[r].response.kind = "json"
      /\ req[r].response.status \in 400..499

\* C9: a failure before the streaming response is returned ends the handler
\* with a JSON error response carrying the error's message and the error's
\* status, or 500 when it has none; the handler never ends in a rejection.
C9_FailuresBecomeJson ==
  \A r \in Ex4Requests :
    /\ req[r].pc # "rejected"
    /\ req[r].thrown # NoError =>
         /\ req[r].pc = "done"
         /\ req[r].response.kind = "json"
         /\ req[r].response.body = req[r].thrown.message
         /\ req[r].response.status =
              (IF req[r].thrown.status = NoStatus THEN 500 ELSE req[r].thrown.status)
    /\ (req[r].pc = "done" /\ req[r].response.kind # "text") => req[r].thrown # NoError

C9_Witness ==
  \E a, b \in Ex4Requests :
    /\ req[a].thrown.status = 429 /\ req[a].response.status = 429
    /\ req[b].thrown = InvalidErr /\ req[b].response.status = 500

\* C10: the step in which a generation stream fails leaves the cache as it
\* was, whatever had been forwarded.
C10_FailedStreamNotCached ==
  [][ \A r \in Ex4Requests :
        (req[r].pc = "streaming" /\ req'[r].pc = "errored") => cache' = cache ]_vars

C10_Witness ==
  \E r \in Ex4Requests :
    /\ req[r].pc = "errored" /\ Len(req[r].forwarded) > 0
    /\ cacheKey(req[r]) \notin DOMAIN cache

\* C11: no step of a request other than the completion of its stream
\* changes vectorStore, isInitialized or the cache; so a request that ends
\* in an error response leaves all three as they were, whatever the other
\* requests are doing.
C11_FailedRequestFrame ==
  [][ \A r \in Ex4Requests :
        (req'[r] # req[r] /\ req'[r].pc # "closed") =>
          /\ vectorStore' = vectorStore
          /\ isInitialized' = isInitialized
          /\ cache' = cache ]_vars

C11_Witness ==
  \E a, b \in Ex4Requests :
    /\ a # b
    /\ req[a].pc = "done" /\ req[a].response.kind = "json"
    /\ req[a].gateAt = "ready" /\ req[a].thrown.status = 429
    /\ req[b].pc = "streaming"
    /\ isInitialized

\* part_000 requests whose index build (load, split, embed) is in flight
P0Building == { r \in P0Requests : req[r].pc \in {"loading", "splitting", "embedding"} }

\* part_000 requests that have started an index build
P0BuildsStarted ==
  { r \in P0Requests : ValidBody(req[r]) /\ req[r].pc \notin {"idle", "json"} }

\* C12: in part_000 at most one index build is in flight at any time and
\* at most one build is ever started in the process.
C12_P0SingleBuild ==
  /\ Cardinality(P0Building) <= 1
  /\ Cardinality(P0BuildsStarted) <= 1

\* C13: a request that misses the cache while the index is not Ready (the
\* build in flight or failed) goes, in the very step in which it resumes
\* after parsing, to the generation call: no wait on the build, the fallback
\* notice as context, no similarity search, one generation call; and a
\* request that took that branch never searches or calls generation again.
C13_NotReadyProceeds ==
  [][ \A r \in Ex4Requests :
        /\ ( /\ Parses(r)
             /\ ValidBody(req[r])
             /\ ~Truthy(CacheGet(cache, cacheKey(req[r])))
             /\ buildPc # "ready" )
           => /\ req'[r].pc = "starting"
              /\ req'[r].gateAt \in {"building", "rejected"}
              /\ req'[r].relevantText = FallbackNotice
              /\ req'[r].prompt.context = FallbackNotice
              /\ req'[r].embedCalls = 0
              /\ req'[r].genCalls = 1
        /\ req[r].gateAt \in {"building", "rejected"}
           => /\ req'[r].embedCalls = 0
              /\ req'[r].genCalls = 1 ]_vars

C13_Witness ==
  \E a, b \in Ex4Requests :
    /\ req[a].gateAt = "building" /\ req[a].pc = "closed" /\ req[a].genCalls = 1
    /\ req[b].gateAt = "rejected" /\ req[b].pc = "streaming" /\ req[b].genCalls = 1
    /\ req[b].prompt.context = FallbackNotice

\* Requests a and b carry the same last-message content after different
\* earlier turns
SameQuestionOtherHistory(a, b) ==
  /\ a # b
  /\ ValidBody(req[a]) /\ ValidBody(req[b])
  /\ LastMessage(req[a]).content = LastMessage(req[b]).content
  /\ SliceButLast(req[a].body.messages) # SliceButLast(req[b].body.messages)

\* C14: the cache entry a request uses is named by the content of its last
\* message alone: requests whose last contents differ use different keys,
\* and when the stream of a request completes while another request with
\* the same last content and a different history is in flight, the entry
\* that other request reads holds the completed answer.
C14_KeyIsLastContent ==
  [][ \A a, b \in Ex4Requests :
        /\ ( /\ ValidBody(req[a]) /\ ValidBody(req[b])
             /\ LastMessage(req[a]).content # LastMessage(req[b]).content )
           => cacheKey(req[a]) # cacheKey(req[b])
        /\ ( /\ SameQuestionOtherHistory(a, b)
             /\ req[a].pc = "streaming" /\ req'[a].pc = "closed"
             /\ req[b].pc \in {"json", "retrieving", "starting", "streaming"} )
           => CacheGet(cache', cacheKey(req[b])) = Text(Concat(req[a].forwarded)) ]_vars

\* ex4 requests for question q that missed the cache
Missed(q) ==
  { r \in Ex4Requests : ValidBody(req[r]) /\ cacheKey(req[r]) = q /\ req[r].gateAt # "" }

\* Those of them that got as far as the generation call
Generating(q) == { r \in Missed(q) : req[r].prompt.question = q }

\* C15: requests for one question that all miss the cache are served
\* independently of each other: each one that ran the index check with the
\* index Ready made one query embedding/search of its own, each one that
\* reached the generation call made one call of its own, and nothing is
\* cached in between, so M such requests make M generation calls.
C15_NoDeduplication ==
  \A q \in Questions :
    /\ \A r \in Missed(q) :
         /\ req[r].embedCalls = (IF req[r].gateAt = "ready" THEN 1 ELSE 0)
         /\ req[r].genCalls = (IF r \in Generating(q) THEN 1 ELSE 0)
    /\ \A r \in Generating(q) : req[r].genCalls = 1
    /\ Missed(q) # {} => q \notin DOMAIN cache

C15_Witness ==
  \E a, b \in Ex4Requests :
    /\ a # b
    /\ ValidBody(req[a]) /\ ValidBody(req[b])
    /\ cacheKey(req[a]) = "q1" /\ cacheKey(req[b]) = "q1"
    /\ req[a].gateAt = "ready" /\ req[b].gateAt = "ready"
    /\ req[a].pc = "streaming" /\ req[b].pc = "streaming"
    /\ req[a].genCalls + req[b].genCalls = 2
    /\ req[a].embedCalls + req[b].embedCalls = 2

\* The first n messages written out one per line, oldest first
RECURSIVE HistoryLines(_, _)
HistoryLines(messages, n) ==
  IF n = 0 THEN ""
  ELSE IF n = 1 THEN messages[1].role \o ": " \o messages[1].content
  ELSE HistoryLines(messages, n - 1) \o "\n"
         \o messages[n].role \o ": " \o messages[n].content

\* C16: when a handler reaches the generation call with a non-empty
\* messages array, chat_history is the messages before the last one, each
\* as `role: content`, oldest first, joined by newlines (so the last message
\* is not in it and none of the earlier ones is missing or moved), and
\* question is the content of the last message.
C16_PromptInputs ==
  \A r \in Requests :
    (req[r].pc = "starting" /\ ValidBody(req[r])) =>
      LET m == req[r].body.messages IN
        /\ req[r].prompt.chat_history = HistoryLines(m, Len(m) - 1)
        /\ req[r].prompt.question = m[Len(m)].content

C16_Witness ==
  \E a \in Requests :
    /\ req[a].pc = "starting" /\ req[a].route = "p0"
    /\ Len(req[a].body.messages) = 3
    /\ req[a].prompt.chat_history = "user: a\nassistant: b"
    /\ req[a].prompt.question = "a"

\* C17: what a request has forwarded to its caller is always the first
\* chunks of the generation stream, in the order produced, each once; a
\* chunk can be with the caller while the stream is still open; and the
\* accumulator used for caching holds the same chunks in the same order.
C17_ForwardedAndAccumulated ==
  \A r \in Ex4Requests :
    req[r].pc \in {"streaming", "closed", "errored"} =>
      /\ Len(req[r].forwarded) <= MaxChunks
      /\ req[r].forwarded = SubSeq(Answer, 1, Len(req[r].forwarded))
      /\ req[r].fullResponse = Concat(req[r].forwarded)

\* The store holds every chunk of one corpus, each ranked
FullyBuilt(vs) ==
  /\ ~vs.isNull
  /\ \E corpus \in Corpora : vs.docs = SplitDocuments(corpus)
  /\ vs.ranking \in Rankings(vs.docs)

\* C18: whenever isInitialized is true the build has finished and
\* vectorStore is the fully built index; a request that is in the retrieval
\* branch, or went through it, ran the index check against that index, and
\* no request failed on a null index.
C18_FlagImpliesIndex ==
  /\ isInitialized => (buildPc = "ready" /\ FullyBuilt(vectorStore))
  /\ ~isInitialized => vectorStore = Null
  /\ \A r \in Ex4Requests :
       /\ (req[r].pc = "retrieving" \/ req[r].embedCalls > 0) =>
            (isInitialized /\ FullyBuilt(vectorStore) /\ req[r].gateAt = "ready")
       /\ req[r].gateAt # "" => req[r].thrown # TypeErr

C18_Witness ==
  /\ isInitialized /\ Len(vectorStore.docs) = 2
  /\ \E a, b \in Ex4Requests :
       /\ req[a].gateAt = "building" /\ req[a].genCalls = 1
       /\ req[b].pc = "retrieving"

C20_HitOnlyForWrittenKey ==
  \A r \in Ex4Requests :
    (ValidBody(req[r]) /\ req[r].pc # "json") =>
      /\ req[r].response.kind = "text" => cacheKey(req[r]) \in DOMAIN cache
      /\ cacheKey(req[r]) \notin DOMAIN cache => req[r].gateAt # ""

====
